---------------------------- MODULE Spec2Model ----------------------------
(***************************************************************************)
(* The network fetch pipeline of the Aluminum browser front end:          *)
(* NetworkManager (src/unnamed/part_000, lines 468-781).                   *)
(*                                                                         *)
(* The collaborators NetworkManager imports (cache.Manager, dns.Resolver,  *)
(* http.Client) have no source in the repository: their state is modelled  *)
(* from their documented contracts.  ConnectionPool is modelled as the     *)
(* source has it.  Every call NetworkManager makes on them is recorded in  *)
(* an operation log, so that what NetworkManager itself does (the order of *)
(* its calls, its early returns, its deferred release) is what the         *)
(* properties below are about.                                             *)
(***************************************************************************)
EXTENDS Integers, Sequences, FiniteSets, TLC

VARIABLES
    request_queue,  \* NetworkManager.request_queue: sequence of PendingRequest
    cache,          \* cache_manager: url -> entry
    busy,           \* connection_pool: the connections handed out and not released
    config,         \* NetworkManager.config
    last,           \* history: the latest direct call of fetch
    drain,          \* history: the latest call of processQueue
    rt,             \* the retry loop around handleNetworkError
    comp,           \* the tunables the components hold (http client, resolver, cache, pool)
    upd,            \* the calls of updateConfig in progress, by caller
    mon,            \* history: the latest measurement of the monitor
    proc,           \* the concurrent calls of fetch and of resolve
    dns,            \* dns_resolver: its positive and negative caches, its queries in flight
    diag,           \* history: the latest call of generateDiagnosticsReport
    meas,           \* the callers inside performSpeedTest
    pu,             \* the updater: the call of performUpdate in progress
    cc              \* CookieCompiler: the flag, the mutex, the condition variable and its callers

ctlVars == <<comp, upd, mon, proc>>

extVars == <<meas, pu, cc>>

auxVars == <<dns, diag, extVars>>

\* The variables of NetworkManager and of its components.
netVars == <<request_queue, cache, busy, config, last, drain, rt, ctlVars, dns, diag>>

vars == <<request_queue, cache, busy, config, last, drain, rt, comp, upd, mon, proc,
          dns, diag, extVars>>

---------------------------------------------------------------------------
(* Bounds of the model. *)

MaxQueue == 2        \* entries the request queue holds at most
MaxRetries == 2      \* largest config.max_retries
MaxFailures == 3     \* most failures of the simulated operation before it succeeds
MaxChecks == 2       \* most failed update checks before an update is found
MaxCompiles == 3     \* most calls of compileCookies

---------------------------------------------------------------------------
(* Program constants. *)

NsPerMs == 1000000   \* std.time.ns_per_ms

---------------------------------------------------------------------------
(* Data. *)

Urls == {"a", "b"}

\* FetchOptions; use_ssl selects the transport mode handed to acquire.
FetchOptions == [use_cache : BOOLEAN, cache_response : BOOLEAN, use_ssl : BOOLEAN]

\* The options requests are queued with: the defaults, and the cache bypassed.
QueuedOptions ==
    { [use_cache |-> TRUE, cache_response |-> TRUE, use_ssl |-> TRUE],
      [use_cache |-> FALSE, cache_response |-> FALSE, use_ssl |-> TRUE] }

\* Response: is_cacheable and a status that tells responses apart.
Response == [status : {200, 404}, is_cacheable : BOOLEAN]

NoEntry == [state |-> "absent"]

FreshEntry(response) == [state |-> "fresh", response |-> response]

StaleEntry(response) == [state |-> "stale", response |-> response]

Conns == {"c1", "c2"}

TransientErrors == {"Timeout", "ConnectionReset", "DnsTemporaryFailure"}

FatalErrors == {"ProtocolError", "MalformedResponse", "PoolExhausted"}

\* What the environment does to one call of fetch: the stage that fails (or
\* none), the error it fails with, and the response the server sends.
FailCases ==
    { <<"resolve", "DnsTemporaryFailure">>,
      <<"acquire", "ConnectionReset">>,
      <<"prepare", "OutOfMemory">>,
      <<"send", "Timeout">>,
      <<"send", "MalformedResponse">>,
      <<"store", "OutOfMemory">> }

Outcomes ==
    { [fail |-> "none", err |-> "none", resp |-> r] : r \in Response }
    \cup
    { [fail |-> f[1], err |-> f[2], resp |-> [status |-> 200, is_cacheable |-> TRUE]] :
        f \in FailCases }

\* The outcomes in which the server answers and no stage of fetch fails.
Answered == { oc \in Outcomes : oc.fail = "none" }

---------------------------------------------------------------------------
(* cache.Manager, from its contract. *)

\* get: the response of a fresh entry, otherwise a miss.
CacheGetServesStale(c, url) ==
    IF c[url].state # "absent" THEN [hit |-> TRUE, response |-> c[url].response]
    ELSE [hit |-> FALSE]

CacheGet(c, url) ==
    IF c[url].state = "fresh" THEN [hit |-> TRUE, response |-> c[url].response]
    ELSE [hit |-> FALSE]

\* set, when the entry fits without any eviction: the entry becomes the
\* fresh entry of its key.
CacheSet(c, url, response) == [c EXCEPT ![url] = FreshEntry(response)]

\* The size a response takes in the cache.  The responses of the fetch model
\* carry no body and count for 1.
ResponseSize(response) ==
    IF "size" \in DOMAIN response THEN response.size ELSE 1

EntrySize(entry) ==
    IF entry.state = "absent" THEN 0 ELSE ResponseSize(entry.response)

RECURSIVE SumSizes(_, _)
SumSizes(c, keys) ==
    IF keys = {} THEN 0
    ELSE LET k == CHOOSE x \in keys : TRUE
         IN  EntrySize(c[k]) + SumSizes(c, keys \ {k})

\* size(): the total size of the entries held, fresh or stale.
CacheSize(c) == SumSizes(c, DOMAIN c)

CachePresent(c) == { k \in DOMAIN c : c[k].state # "absent" }

CacheRemove(c, k) == [c EXCEPT ![k] = NoEntry]

\* Eviction removes entries in the order of the policy until the size is
\* within the limit or nothing is left to evict.
RECURSIVE EvictAlong(_, _, _)
EvictAlong(c, order, limit) ==
    IF CacheSize(c) <= limit \/ order = <<>> THEN c
    ELSE EvictAlong(CacheRemove(c, Head(order)), Tail(order), limit)

\* The orders a policy can rank the entries in (age-based, least recently
\* used): the policy in force is not modelled, every order is possible.
EvictionOrders(keys) ==
    { o \in [1..Cardinality(keys) -> keys] :
        \A i, j \in 1..Cardinality(keys) : o[i] = o[j] => i = j }

EvictNothing(c, limit) == {c}

EvictResults(c, limit) ==
    { EvictAlong(c, o, limit) : o \in EvictionOrders(CachePresent(c)) }

\* A response larger than the maximum size is rejected by set.
OversizeAccepted(response, max_size) == FALSE

Oversize(response, max_size) == ResponseSize(response) > max_size

\* set(url, response) under the size bound: an oversize response is not
\* cached; otherwise the entry replaces the one of its key, after evicting
\* other entries until it fits.
CacheSetBounded(c, url, response, max_size) ==
    IF Oversize(response, max_size) THEN {c}
    ELSE LET without == CacheRemove(c, url)
             room == max_size - ResponseSize(response)
         IN  { CacheSet(e, url, response) : e \in EvictResults(without, room) }

\* updateConfig(.{ .max_size = max_size, ... }): the cache is evicted down to
\* the new bound.
CacheUpdateConfig(c, max_size) == EvictResults(c, max_size)

\* clear(): no entry is left.
CacheClear(c) == [k \in DOMAIN c |-> NoEntry]

---------------------------------------------------------------------------
(* ConnectionPool.  The pool of the source is a placeholder: init and      *)
(* setMaxConnections discard the ceiling they are given, acquire consults  *)
(* nothing and returns `undefined`, release does nothing.  busy is the set *)
(* of connections fetch has acquired and not yet released.                 *)

\* acquire(ip, use_ssl) returns an undefined pointer: it may name any
\* connection, one that is busy included, whatever the ceiling is.
AcquireResults(b) == Conns

\* The connection of a call of fetch that runs alone; it is released before
\* fetch returns, so which one it is does not show.
PoolPick(b) == CHOOSE c \in AcquireResults(b) : c \notin b

---------------------------------------------------------------------------
(* NetworkManager.fetch. *)

Ok(response) == [kind |-> "response", response |-> response]

Err(e) == [kind |-> "error", err |-> e]

\* fetch consults the cache only when options.use_cache is set, and returns
\* the cached response when get finds one.
UseCacheHitNever(c, url, options) == FALSE

UseCacheHit(c, url, options) == options.use_cache /\ CacheGet(c, url).hit

\* The response is stored when options.cache_response is set and it is cacheable.
ShouldStoreNever(options, response) == FALSE

ShouldStoreIgnoresCacheable(options, response) == options.cache_response

ShouldStore(options, response) == options.cache_response /\ response.is_cacheable

\* defer self.connection_pool.release(conn): runs on every exit of fetch
\* after the acquire, whatever the result.
ReleaseOnSuccessOnly(held, conn, result) ==
    IF result.kind = "error" THEN held ELSE held \ {conn}

DeferRelease(held, conn, result) == held \ {conn}

\* return response: fetch hands the response of sendRequest to its caller
\* as it is, whatever its status.
ReturnChecksStatus(response) ==
    IF response.status >= 400 THEN Err("ProtocolError") ELSE Ok(response)

ReturnResponse(response) == Ok(response)

\* fetch after a successful acquire, up to its return: prepareRequest,
\* sendRequest, the conditional store.
FetchBody(c, url, options, oc) ==
    IF oc.fail = "prepare"
    THEN [cache |-> c, ops |-> <<"prepare">>, result |-> Err(oc.err)]
    ELSE IF oc.fail = "send"
    THEN [cache |-> c, ops |-> <<"prepare", "send">>, result |-> Err(oc.err)]
    ELSE IF ShouldStore(options, oc.resp)
    THEN IF oc.fail = "store"
         THEN [cache |-> c, ops |-> <<"prepare", "send", "cache_set">>,
               result |-> Err(oc.err)]
         ELSE [cache |-> CacheSet(c, url, oc.resp),
               ops |-> <<"prepare", "send", "cache_set">>,
               result |-> ReturnResponse(oc.resp)]
    ELSE [cache |-> c, ops |-> <<"prepare", "send">>,
          result |-> ReturnResponse(oc.resp)]

\* const ip = try self.dns_resolver.resolve(host): a failing resolve leaves
\* fetch before the acquire; pre are the calls made up to there.
ResolveFailedHoldsConnection(c, b, pre, err) ==
    [cache |-> c, busy |-> b \cup {PoolPick(b)},
     ops |-> pre \o <<"acquire", "resolve">>, acquired |-> TRUE, result |-> Err(err)]

ResolveFailed(c, b, pre, err) ==
    [cache |-> c, busy |-> b, ops |-> pre \o <<"resolve">>,
     acquired |-> FALSE, result |-> Err(err)]

\* One call fetch(url, options) in the state (c, b, cfg) with the environment
\* behaving as oc: the cache and pool it leaves, the calls it made on its
\* collaborators in order, and what it returns.
FetchCall(c, b, cfg, url, options, oc) ==
    LET pre == IF options.use_cache THEN <<"cache_get">> ELSE <<>> IN
    IF UseCacheHit(c, url, options)
    THEN [cache |-> c, busy |-> b, ops |-> pre, acquired |-> FALSE,
          result |-> Ok(CacheGet(c, url).response)]
    ELSE IF oc.fail = "resolve"
    THEN ResolveFailed(c, b, pre, oc.err)
    ELSE IF oc.fail = "acquire"
    THEN [cache |-> c, busy |-> b, ops |-> pre \o <<"resolve", "acquire">>,
          acquired |-> FALSE, result |-> Err(oc.err)]
    ELSE LET conn == PoolPick(b)
             held == b \cup {conn}
             body == FetchBody(c, url, options, oc)
             left == DeferRelease(held, conn, body.result)
         IN  [cache |-> body.cache, busy |-> left,
              ops |-> pre \o <<"resolve", "acquire">> \o body.ops
                          \o (IF conn \in left THEN <<>> ELSE <<"release">>),
              acquired |-> TRUE, result |-> body.result]

\* The history record of a call of fetch: its arguments, the cache entry of
\* its url when it was called, and what it did.
FetchRecord(c, url, options, r) ==
    [url |-> url, options |-> options, before |-> c[url],
     ops |-> r.ops, acquired |-> r.acquired, result |-> r.result]

NoFetch == [url |-> "none"]

---------------------------------------------------------------------------
(* NetworkManager.queueRequest and processQueue. *)

QueueIds(q) == { q[i].id : i \in 1..Len(q) }

IdsOf(q) == [i \in 1..Len(q) |-> q[i].id]

\* The allocation made for a queued url (allocator.dupe) names the entry.
FreshId(q) == CHOOSE i \in 1..(MaxQueue + 1) :
                 /\ i \notin QueueIds(q)
                 /\ \A j \in 1..(MaxQueue + 1) : j \notin QueueIds(q) => i <= j

\* request_queue.popOrNull(): the entry taken is the last one of the list.
PopIndex(q) == Len(q)

PopRest(q) == SubSeq(q, 1, Len(q) - 1)

\* The popped entry is freed whatever its fetch returns; on an error the
\* loop is left by `try` with the entries not yet popped still queued.
QueueKeepsFailed(rest, entry) == Append(rest, entry)

QueueAfterFailure(rest, entry) == rest

NoDrain == [called |-> FALSE]

\* The results processQueue can end with from the queue q: the loop pops an
\* entry and fetches it, until the queue is empty or a fetch fails.
RECURSIVE DrainFrom(_, _, _, _, _)
DrainFrom(q, c, b, cfg, fetched) ==
    IF q = <<>>
    THEN { [queue |-> q, cache |-> c, busy |-> b, fetched |-> fetched,
            failed |-> 0, result |-> "ok"] }
    ELSE LET entry == q[PopIndex(q)]
             rest == PopRest(q)
         IN  UNION { LET r == FetchCall(c, b, cfg, entry.url, entry.options, oc)
                         now == Append(fetched, entry.id)
                     IN  IF r.result.kind = "error"
                         THEN { [queue |-> QueueAfterFailure(rest, entry),
                                 cache |-> r.cache, busy |-> r.busy,
                                 fetched |-> now, failed |-> entry.id,
                                 result |-> "error"] }
                         ELSE DrainFrom(rest, r.cache, r.busy, cfg, now)
                   : oc \in Outcomes }

---------------------------------------------------------------------------
(* NetworkManager.handleNetworkError. *)

\* if (retry_count >= self.config.max_retries) return err;
RetriesExhaustedAfter(retry_count, max_retries) == retry_count > max_retries

RetriesExhausted(retry_count, max_retries) == retry_count >= max_retries

RECURSIVE Pow2(_)
Pow2(n) == IF n = 0 THEN 1 ELSE 2 * Pow2(n - 1)

\* backoff_time = std.time.ns_per_ms * std.math.pow(u64, 2, retry_count)
BackoffTimeLinear(retry_count) == NsPerMs * 2 * retry_count

BackoffTime(retry_count) == NsPerMs * Pow2(retry_count)

\* handleNetworkError(err, retry_count): returns err when the retries are
\* exhausted, whatever err is; otherwise sleeps for the backoff time and
\* returns normally, which tells the caller to try again.
HandleNetworkError(cfg, err, retry_count) ==
    IF RetriesExhausted(retry_count, cfg.max_retries)
    THEN [retry |-> FALSE, err |-> err, slept |-> 0]
    ELSE [retry |-> TRUE, err |-> "none", slept |-> BackoffTime(retry_count)]

---------------------------------------------------------------------------
(* The state machine. *)

InitialConfig ==
    [max_connections_per_host |-> 2, max_total_connections |-> 2,
     request_timeout |-> 15000, max_retries |-> MaxRetries,
     dns_cache_size |-> 64, cache_max_size |-> 1024]

\* init: every component is constructed from the configuration.
ComponentsOf(cfg) ==
    [http |-> [max_connections_per_host |-> cfg.max_connections_per_host,
               timeout |-> cfg.request_timeout],
     dns |-> [cache_size |-> cfg.dns_cache_size],
     cache |-> [max_size |-> cfg.cache_max_size],
     pool |-> [max_total_connections |-> cfg.max_total_connections]]

Updaters == {"manual", "monitor"}

Procs == {"f1", "f2"}

NoUpdate == [pc |-> "idle"]

NoMeasurement == [measured |-> FALSE]

IdleProc == [pc |-> "idle"]

NoPerformUpdate == [pc |-> "idle", checks |-> 0]

Compilers == {"t1", "t2"}

Waiters == {"w1"}

\* CookieCompiler() : compilationInProgress(false); nobody has called yet.
CookieCompilerInit ==
    [flag |-> FALSE, mutex |-> "none", blocked |-> {}, alive |-> TRUE, calls |-> 0,
     pc |-> [t \in Compilers \cup Waiters |-> "idle"]]

\* extractHost returns the url it is given: the host of a url is the url.
Hosts == Urls

NoName == [state |-> "none"]

\* The resolver after init: nothing cached, no query in flight.
DnsEmpty ==
    [pos |-> [h \in Hosts |-> NoName],
     neg |-> [h \in Hosts |-> NoName],
     inflight |-> [h \in Hosts |-> {}]]

NoReport == [called |-> FALSE]

\* No call of updateConfig, no measurement and no concurrent fetch is under
\* way; the resolver is empty and no report has been made.
CtlInit(cfg) ==
    /\ comp = ComponentsOf(cfg)
    /\ upd = [u \in Updaters |-> NoUpdate]
    /\ mon = NoMeasurement
    /\ proc = [p \in Procs |-> IdleProc]
    /\ dns = DnsEmpty
    /\ diag = NoReport
    /\ meas = {}
    /\ pu = NoPerformUpdate
    /\ cc = CookieCompilerInit

RtIdle == [status |-> "idle"]

Init ==
    /\ request_queue = <<>>
    /\ cache = [u \in Urls |-> NoEntry]
    /\ busy = {}
    /\ config = InitialConfig
    /\ last = NoFetch
    /\ drain = NoDrain
    /\ rt = RtIdle
    /\ CtlInit(InitialConfig)

\* fetch(url, options), called directly.
Fetch(url, options, oc) ==
    LET r == FetchCall(cache, busy, config, url, options, oc) IN
    /\ cache' = r.cache
    /\ busy' = r.busy
    /\ last' = FetchRecord(cache, url, options, r)
    /\ UNCHANGED <<request_queue, config, drain, rt>>
    /\ UNCHANGED ctlVars
    /\ UNCHANGED auxVars

\* queueRequest(url, options)
QueueRequest(url, options) ==
    /\ Len(request_queue) < MaxQueue
    /\ request_queue' = Append(request_queue,
           [id |-> FreshId(request_queue), url |-> url, options |-> options])
    /\ UNCHANGED <<cache, busy, config, last, drain, rt>>
    /\ UNCHANGED ctlVars
    /\ UNCHANGED auxVars

\* processQueue()
ProcessQueue ==
    /\ \E d \in DrainFrom(request_queue, cache, busy, config, <<>>) :
          /\ request_queue' = d.queue
          /\ cache' = d.cache
          /\ busy' = d.busy
          /\ drain' = [called |-> TRUE, before |-> IdsOf(request_queue),
                       fetched |-> d.fetched, failed |-> d.failed,
                       result |-> d.result, left |-> IdsOf(d.queue)]
    /\ UNCHANGED <<config, last, rt>>
    /\ UNCHANGED ctlVars
    /\ UNCHANGED auxVars

\* Time passes beyond the expiration time of a cached entry.
CacheExpire(url) ==
    /\ cache[url].state = "fresh"
    /\ cache' = [cache EXCEPT ![url] = StaleEntry(cache[url].response)]
    /\ UNCHANGED <<request_queue, busy, config, last, drain, rt>>
    /\ UNCHANGED ctlVars
    /\ UNCHANGED auxVars


\* Direct calls of fetch, and time passing.
NextFetch ==
    \/ \E u \in Urls, o \in FetchOptions, oc \in Outcomes : Fetch(u, o, oc)
    \/ \E u \in Urls : CacheExpire(u)

SpecFetch == Init /\ [][NextFetch]_vars

\* The deferred path: requests are queued and drained, and time passes.
NextQueue ==
    \/ \E u \in Urls, o \in QueuedOptions : QueueRequest(u, o)
    \/ ProcessQueue
    \/ \E u \in Urls : CacheExpire(u)

SpecQueue == Init /\ [][NextQueue]_vars

---------------------------------------------------------------------------
(* The retry loop: an operation that fails `fails` times with the error    *)
(* `kind` and then succeeds, run by a caller that consults                 *)
(* handleNetworkError after each failure.  handleNetworkError has no       *)
(* caller in the source, so the number the caller passes for the first     *)
(* failure (`first`: 0, the failures before this one; or 1, the failures   *)
(* so far) is an input.                                                    *)

ErrorKinds == TransientErrors \cup FatalErrors

InitRetry ==
    /\ request_queue = <<>>
    /\ cache = [u \in Urls |-> NoEntry]
    /\ busy = {}
    /\ config \in { [InitialConfig EXCEPT !.max_retries = m] : m \in 0..MaxRetries }
    /\ last = NoFetch
    /\ drain = NoDrain
    /\ CtlInit(config)
    /\ rt \in { [status |-> "running", kind |-> k, fails |-> n, first |-> f,
                 failures |-> 0, attempts |-> 0, slept |-> <<>>] :
                   k \in ErrorKinds, n \in 0..MaxFailures, f \in {0, 1} }

\* One attempt of the operation, and on its failure the call of
\* handleNetworkError.
ExecuteAttempt ==
    /\ rt.status = "running"
    /\ IF rt.failures < rt.fails
       THEN LET h == HandleNetworkError(config, rt.kind, rt.first + rt.failures) IN
            rt' = [rt EXCEPT !.attempts = @ + 1,
                             !.failures = @ + 1,
                             !.slept = IF h.retry THEN Append(@, h.slept) ELSE @,
                             !.status = IF h.retry THEN "running" ELSE "fatal"]
       ELSE rt' = [rt EXCEPT !.attempts = @ + 1, !.status = "succeeded"]
    /\ UNCHANGED <<request_queue, cache, busy, config, last, drain>>
    /\ UNCHANGED ctlVars
    /\ UNCHANGED auxVars

NextRetry == ExecuteAttempt

SpecRetry == InitRetry /\ [][NextRetry]_vars


---------------------------------------------------------------------------
(* NetworkManager.updateConfig and the network condition monitor.          *)
(* updateConfig takes no lock, so its statements are steps other callers   *)
(* interleave with; comp records, for each component, the tunables it was  *)
(* last handed (at init or by updateConfig).                               *)

LowBandLimit == 1000000       \* download_speed < 1_000_000

MediumBandLimit == 10000000   \* download_speed < 10_000_000

\* The download speeds a measurement reports: the two band limits, one
\* speed below them and one above.
Speeds == {500000, 1000000, 10000000, 20000000}

\* The configurations a caller hands to updateConfig.
ManualConfigs ==
    { [InitialConfig EXCEPT !.max_total_connections = n] : n \in {1, 2} }

\* adjustSettingsBasedOnNetworkConditions: the configuration it hands to
\* updateConfig, from the configuration it read and the measured speed.
AdjustedConfig(cfg, download_speed) ==
    IF download_speed < LowBandLimit
    THEN [cfg EXCEPT !.max_connections_per_host = 2, !.request_timeout = 30000]
    ELSE IF download_speed < MediumBandLimit
    THEN [cfg EXCEPT !.max_connections_per_host = 4, !.request_timeout = 15000]
    ELSE [cfg EXCEPT !.max_connections_per_host = 6, !.request_timeout = 10000]

\* The component calls of updateConfig follow each other in this order.
StepAfter(pc) ==
    IF pc = "http" THEN "dns"
    ELSE IF pc = "dns" THEN "cache"
    ELSE IF pc = "cache" THEN "pool"
    ELSE "idle"

\* The components whose updateConfig can return an error; setMaxConnections
\* of the pool returns none.
FallibleComponents == {"http", "dns", "cache"}

\* updateConfig(new_config) is called by the embedder.
UpdateCall(new_config) ==
    /\ upd["manual"].pc = "idle"
    /\ upd' = [upd EXCEPT !["manual"] = [pc |-> "write", new |-> new_config]]
    /\ UNCHANGED <<request_queue, cache, busy, config, last, drain, rt, comp, mon, proc>>
    /\ UNCHANGED auxVars

\* One round of monitorNetworkConditions up to the call of updateConfig: the
\* measurement, the copy of self.config and the band settings.
MonitorAdjust(download_speed) ==
    /\ upd["monitor"].pc = "idle"
    /\ LET new_config == AdjustedConfig(config, download_speed) IN
          /\ mon' = [measured |-> TRUE, speed |-> download_speed,
                     new |-> new_config]
          /\ upd' = [upd EXCEPT !["monitor"] = [pc |-> "write", new |-> new_config]]
    /\ UNCHANGED <<request_queue, cache, busy, config, last, drain, rt, comp, proc>>
    /\ UNCHANGED auxVars

\* self.config = new_config
UpdateWrite(u) ==
    /\ upd[u].pc = "write"
    /\ config' = upd[u].new
    /\ upd' = [upd EXCEPT ![u].pc = "http"]
    /\ UNCHANGED <<request_queue, cache, busy, last, drain, rt, comp, mon, proc>>
    /\ UNCHANGED auxVars

\* ConnectionPool.setMaxConnections(max_connections): the connections handed
\* out are left as they are.
SetMaxConnectionsEvicts(held, max_connections) ==
    IF Cardinality(held) > max_connections THEN {} ELSE held

SetMaxConnections(held, max_connections) == held

\* The next component call of updateConfig: the component takes its tunables
\* from new_config, or returns an error that `try` passes to the caller with
\* the earlier statements done.
UpdateComponent(u, ok) ==
    LET pc == upd[u].pc
        new == ComponentsOf(upd[u].new)
    IN  /\ pc \in {"http", "dns", "cache", "pool"}
        /\ ok \/ pc \in FallibleComponents
        /\ IF ok
           THEN /\ comp' = [comp EXCEPT ![pc] = new[pc]]
                /\ upd' = [upd EXCEPT ![u] =
                              IF pc = "pool"
                              THEN [pc |-> "idle", returned |-> "ok",
                                    ceiling_was |-> comp.pool.max_total_connections]
                              ELSE [pc |-> StepAfter(pc), new |-> upd[u].new]]
           ELSE /\ comp' = comp
                /\ upd' = [upd EXCEPT ![u] = [pc |-> "idle", returned |-> "error"]]
        /\ busy' = IF ok /\ pc = "pool"
                   THEN SetMaxConnections(busy, upd[u].new.max_total_connections)
                   ELSE busy
        /\ cache' \in IF ok /\ pc = "cache"
                       THEN CacheUpdateConfig(cache, new.cache.max_size)
                       ELSE {cache}
        /\ UNCHANGED <<request_queue, config, last, drain, rt, mon, proc>>
        /\ UNCHANGED auxVars

NextMonitor ==
    \/ \E c \in ManualConfigs : UpdateCall(c)
    \/ \E s \in Speeds : MonitorAdjust(s)
    \/ \E u \in Updaters : UpdateWrite(u)
    \/ \E u \in Updaters, ok \in BOOLEAN : UpdateComponent(u, ok)

SpecMonitor == Init /\ [][NextMonitor]_vars

---------------------------------------------------------------------------
(* Concurrent calls of fetch.  A call that reaches the pool is three steps *)
(* other calls interleave with: up to the call of acquire, the acquire,    *)
(* and from there to the return with the deferred release.                 *)

\* The options of the concurrent calls: the cache is bypassed, so every call
\* reaches the pool.
StepOptions == [use_cache |-> FALSE, cache_response |-> FALSE, use_ssl |-> TRUE]

\* What the environment does to a call that holds its connection.
StepOutcomes == { oc \in Outcomes : oc.fail \notin {"resolve", "acquire"} }

Holding(p) == proc[p].pc = "holding"

\* The connections busy for the destination of url.
BusyFor(url) == { proc[p].conn : p \in { q \in Procs : Holding(q) /\ proc[q].url = url } }

\* init(allocator, config) with one of the configurations of the embedder.
InitPool ==
    /\ request_queue = <<>>
    /\ cache = [u \in Urls |-> NoEntry]
    /\ busy = {}
    /\ config \in ManualConfigs
    /\ last = NoFetch
    /\ drain = NoDrain
    /\ rt = RtIdle
    /\ CtlInit(config)

\* fetch(url, StepOptions) is called and runs up to the call of acquire.
FetchStart(p, url) ==
    /\ proc[p].pc = "idle"
    /\ proc' = [proc EXCEPT ![p] = [pc |-> "acquiring", url |-> url]]
    /\ UNCHANGED <<request_queue, cache, busy, config, last, drain, rt, comp, upd, mon>>
    /\ UNCHANGED auxVars

\* const conn = try self.connection_pool.acquire(ip, options.use_ssl);
FetchAcquire(p, conn) ==
    /\ proc[p].pc = "acquiring"
    /\ conn \in AcquireResults(busy)
    /\ busy' = busy \cup {conn}
    /\ proc' = [proc EXCEPT ![p] = [pc |-> "holding", url |-> proc[p].url,
                                    conn |-> conn]]
    /\ UNCHANGED <<request_queue, cache, config, last, drain, rt, comp, upd, mon>>
    /\ UNCHANGED auxVars

\* prepareRequest, sendRequest, the conditional store, and the deferred
\* release on the way out.
FetchFinish(p, oc) ==
    /\ Holding(p)
    /\ LET body == FetchBody(cache, proc[p].url, StepOptions, oc) IN
          /\ cache' = body.cache
          /\ busy' = DeferRelease(busy, proc[p].conn, body.result)
    /\ proc' = [proc EXCEPT ![p] = IdleProc]
    /\ UNCHANGED <<request_queue, config, last, drain, rt, comp, upd, mon>>
    /\ UNCHANGED auxVars

NextPool ==
    \/ \E p \in Procs, u \in Urls : FetchStart(p, u)
    \/ \E p \in Procs, c \in Conns : FetchAcquire(p, c)
    \/ \E p \in Procs, oc \in StepOutcomes : FetchFinish(p, oc)
    \/ \E c \in ManualConfigs : UpdateCall(c)
    \/ UpdateWrite("manual")
    \/ \E ok \in BOOLEAN : UpdateComponent("manual", ok)

SpecPool == InitPool /\ [][NextPool]_vars

---------------------------------------------------------------------------
(* The response cache under its size bound: calls of fetch whose stages    *)
(* all succeed, with responses of different sizes, entries expiring, and   *)
(* updateConfig changing cache_max_size.                                   *)

MaxResponseSize == 3     \* largest size of a response

\* The urls fetched: enough for a store to evict more than one entry.
CacheUrls == Urls \cup {"c"}

\* The responses sent: cacheable, of every size up to the largest.
SizedResponses ==
    [status : {200}, is_cacheable : {TRUE}, size : 1..MaxResponseSize]

\* The options of the calls: the defaults (use_cache, cache_response).
StoreOptions == [use_cache |-> TRUE, cache_response |-> TRUE, use_ssl |-> TRUE]

\* The configurations the cache is set up and reconfigured with.
CacheConfigs == { [InitialConfig EXCEPT !.cache_max_size = m] : m \in {2, 3} }

InitCache ==
    /\ request_queue = <<>>
    /\ cache = [u \in CacheUrls |-> NoEntry]
    /\ busy = {}
    /\ config \in CacheConfigs
    /\ last = NoFetch
    /\ drain = NoDrain
    /\ rt = RtIdle
    /\ CtlInit(config)

\* fetch(url, options) with every stage succeeding and the server sending
\* response; the store is made under the bound the cache was last handed.
\* The history record also keeps the size of the cache at the call, and
\* `turn` tells a call from the one before it.
FetchStore(url, options, response) ==
    LET oc == [fail |-> "none", err |-> "none", resp |-> response]
        r == FetchCall(cache, busy, config, url, options, oc)
        stores == "cache_set" \in { r.ops[i] : i \in 1..Len(r.ops) }
    IN  /\ cache' \in IF stores
                     THEN CacheSetBounded(cache, url, response, comp.cache.max_size)
                     ELSE {cache}
        /\ busy' = r.busy
        /\ last' = [url |-> url, options |-> options, before |-> cache[url],
                    ops |-> r.ops, acquired |-> r.acquired, result |-> r.result,
                    size_before |-> CacheSize(cache),
                    turn |-> IF last = NoFetch THEN 0 ELSE 1 - last.turn]
        /\ UNCHANGED <<request_queue, config, drain, rt>>
        /\ UNCHANGED ctlVars
        /\ UNCHANGED auxVars

NextCache ==
    \/ \E u \in CacheUrls, r \in SizedResponses : FetchStore(u, StoreOptions, r)
    \/ \E u \in CacheUrls : CacheExpire(u)
    \/ \E c \in CacheConfigs : UpdateCall(c)
    \/ UpdateWrite("manual")
    \/ \E ok \in BOOLEAN : UpdateComponent("manual", ok)

SpecCache == InitCache /\ [][NextCache]_vars

---------------------------------------------------------------------------
(* dns.Resolver, from its contract: a positive cache and a negative cache  *)
(* with their own lifetimes, and one query in flight per hostname that     *)
(* concurrent callers share.  Time is counted in ticks; an entry is        *)
(* usable while its age is below the lifetime of its cache.                *)

PositiveTtl == 2     \* lifetime of a positive entry, in ticks

NegativeTtl == 1     \* lifetime of a negative entry, in ticks

Addrs == {"ip1", "ip2"}

\* What the nameservers answer to a query.
Answers ==
    { [ok |-> TRUE, addrs |-> a] : a \in Addrs }
    \cup { [ok |-> FALSE, err |-> "DnsTemporaryFailure"] }

PosEntry(addrs) == [state |-> "cached", addrs |-> addrs, age |-> 0]

NegEntry(err) == [state |-> "cached", err |-> err, age |-> 0]

PositiveFreshForever(d, h) == d.pos[h].state = "cached"

PositiveFresh(d, h) == d.pos[h].state = "cached" /\ d.pos[h].age < PositiveTtl

NegativeFreshAsPositive(d, h) ==
    d.neg[h].state = "cached" /\ d.neg[h].age < PositiveTtl

NegativeFresh(d, h) == d.neg[h].state = "cached" /\ d.neg[h].age < NegativeTtl

\* A call joins the query in flight for its hostname, when there is one.
JoinsNever(queries) == FALSE

JoinsInFlight(queries) == queries # {}

\* The answer of a query enters the positive or the negative cache.
DnsStore(d, h, answer) ==
    IF answer.ok
    THEN [d EXCEPT !.pos[h] = PosEntry(answer.addrs), !.neg[h] = NoName]
    ELSE [d EXCEPT !.neg[h] = NegEntry(answer.err)]

\* What a call answered from a cache returns.
FromPositive(d, h) == [ok |-> TRUE, addrs |-> d.pos[h].addrs]

FromNegative(d, h) == [ok |-> FALSE, err |-> d.neg[h].err]

\* clearCache(): both caches are emptied; queries in flight go on.
DnsClear(d) ==
    [d EXCEPT !.pos = [h \in Hosts |-> NoName], !.neg = [h \in Hosts |-> NoName]]

Older(entry) ==
    IF entry.state = "cached" /\ entry.age < PositiveTtl
    THEN [entry EXCEPT !.age = @ + 1]
    ELSE entry

\* The record of a call of resolve: its hostname, whether it issued a query,
\* where its result comes from, the query it waits for, and its result.
ResolveRecord(h, pc, queried, source, on, result) ==
    [pc |-> pc, host |-> h, queried |-> queried, source |-> source, on |-> on,
     result |-> result]

NoResult == [ok |-> FALSE, err |-> "none"]

NotResolving(p) == proc[p].pc \in {"idle", "resolved"}

\* resolve(h) is called by p: it returns from a cache, or waits for the
\* query in flight, or issues a query and waits for it.
ResolveStart(p, h) ==
    /\ NotResolving(p)
    /\ IF PositiveFresh(dns, h)
       THEN /\ proc' = [proc EXCEPT ![p] = ResolveRecord(h, "resolved", FALSE,
                                               "positive", p, FromPositive(dns, h))]
            /\ dns' = dns
       ELSE IF NegativeFresh(dns, h)
       THEN /\ proc' = [proc EXCEPT ![p] = ResolveRecord(h, "resolved", FALSE,
                                               "negative", p, FromNegative(dns, h))]
            /\ dns' = dns
       ELSE IF JoinsInFlight(dns.inflight[h])
       THEN /\ \E q \in dns.inflight[h] :
                  proc' = [proc EXCEPT ![p] = ResolveRecord(h, "waiting", FALSE,
                                                  "query", q, NoResult)]
            /\ dns' = dns
       ELSE /\ proc' = [proc EXCEPT ![p] = ResolveRecord(h, "waiting", TRUE,
                                               "query", p, NoResult)]
            /\ dns' = [dns EXCEPT !.inflight[h] = @ \cup {p}]
    /\ UNCHANGED <<request_queue, cache, busy, config, last, drain, rt, comp, upd, mon, diag>>
    /\ UNCHANGED extVars

\* The query q issued is answered: the answer is cached and handed to every
\* call that waits for this query.
QueryDone(q, answer) ==
    /\ proc[q].pc = "waiting"
    /\ q \in dns.inflight[proc[q].host]
    /\ LET h == proc[q].host
           stored == DnsStore(dns, h, answer)
       IN  /\ dns' = [stored EXCEPT !.inflight[h] = @ \ {q}]
           /\ proc' = [p \in Procs |->
                         IF proc[p].pc = "waiting" /\ proc[p].host = h /\ proc[p].on = q
                         THEN [proc[p] EXCEPT !.pc = "resolved", !.result = answer]
                         ELSE proc[p]]
    /\ UNCHANGED <<request_queue, cache, busy, config, last, drain, rt, comp, upd, mon, diag>>
    /\ UNCHANGED extVars

\* One tick of time passes: every cached name is one tick older.
Tick ==
    /\ \E h \in Hosts : Older(dns.pos[h]) # dns.pos[h] \/ Older(dns.neg[h]) # dns.neg[h]
    /\ dns' = [dns EXCEPT !.pos = [h \in Hosts |-> Older(dns.pos[h])],
                          !.neg = [h \in Hosts |-> Older(dns.neg[h])]]
    /\ UNCHANGED <<request_queue, cache, busy, config, last, drain, rt, comp, upd, mon,
                   proc, diag>>
    /\ UNCHANGED extVars

NextDns ==
    \/ \E p \in Procs, h \in Hosts : ResolveStart(p, h)
    \/ \E q \in Procs, a \in Answers : QueryDone(q, a)
    \/ Tick

SpecDns == Init /\ [][NextDns]_vars

---------------------------------------------------------------------------
(* NetworkManager.clearCaches and generateDiagnosticsReport, called        *)
(* between fetches that fill the response cache and calls of resolve that  *)
(* fill the resolver's caches.  diag records the last of these two calls:  *)
(* the calls it made on the components, and for clearCaches what the       *)
(* caches held when it was called.                                         *)

\* clearCaches: dns_resolver.clearCache(), then cache_manager.clear().
ClearCachesSkipsResolver(d, c) == [dns |-> d, cache |-> CacheClear(c)]

ClearCachesCall(d, c) == [dns |-> DnsClear(d), cache |-> CacheClear(c)]

ClearCaches ==
    LET r == ClearCachesCall(dns, cache) IN
    /\ dns' = r.dns
    /\ cache' = r.cache
    /\ diag' = [called |-> TRUE, op |-> "clearCaches",
                ops |-> <<"dns_clear", "cache_clear">>,
                positive |-> { h \in Hosts : PositiveFresh(dns, h) },
                negative |-> { h \in Hosts : NegativeFresh(dns, h) },
                responses |-> { u \in Urls : CacheGet(cache, u).hit }]
    /\ UNCHANGED <<request_queue, busy, config, last, drain, rt, comp, upd, mon, proc>>
    /\ UNCHANGED extVars

\* The calls generateDiagnosticsReport makes, in order: it reads
\* config.dns_servers, cache_manager.size() and
\* connection_pool.activeConnections(), and then calls performSpeedTest().
ReportCalls == <<"config_read", "cache_size", "active_connections", "speed_test">>

\* generateDiagnosticsReport: the report is built from what the calls
\* return; a failing speed test fails the report.  Nothing of the manager
\* is assigned.
GenerateDiagnosticsReport(speed_test_ok) ==
    /\ diag' = [called |-> TRUE, op |-> "generateDiagnosticsReport",
                ops |-> ReportCalls,
                returned |-> IF speed_test_ok THEN "report" ELSE "error"]
    /\ UNCHANGED <<request_queue, cache, busy, config, last, drain, rt, comp, upd, mon,
                   proc, dns>>
    /\ UNCHANGED extVars

\* The fetches that fill the response cache: the server answers with a
\* cacheable response.
CacheableAnswers == { oc \in Answered : oc.resp.is_cacheable /\ oc.resp.status = 200 }

NextClear ==
    \/ \E u \in Urls, oc \in CacheableAnswers : Fetch(u, StoreOptions, oc)
    \/ \E h \in Hosts : ResolveStart("f1", h)
    \/ \E a \in Answers : QueryDone("f1", a)
    \/ ClearCaches
    \/ \E ok \in BOOLEAN : GenerateDiagnosticsReport(ok)

SpecClear == Init /\ [][NextClear]_vars

---------------------------------------------------------------------------
(* monitorNetworkConditions, step by step, next to a caller of             *)
(* generateDiagnosticsReport.  performSpeedTest takes time: meas holds its *)
(* callers between their call and its return.  The monitor is one loop:    *)
(* performSpeedTest, adjustSettingsBasedOnNetworkConditions (which ends in *)
(* updateConfig), sleep; an error of either call ends the loop.            *)

Measurers == {"monitor", "report"}

MonitorStopped == [pc |-> "idle", returned |-> "error"]

\* The monitor is at the top of its loop and calls performSpeedTest, which
\* checks nothing and starts measuring.
MonitorMeasure ==
    /\ upd["monitor"].pc = "idle"
    /\ upd["monitor"] # MonitorStopped
    /\ "monitor" \notin meas
    /\ meas' = meas \cup {"monitor"}
    /\ UNCHANGED <<netVars, pu, cc>>

\* performSpeedTest returns to the monitor, which copies self.config, sets
\* the band settings and calls updateConfig.
MonitorMeasured(download_speed) ==
    /\ "monitor" \in meas
    /\ meas' = meas \ {"monitor"}
    /\ LET new_config == AdjustedConfig(config, download_speed) IN
          /\ mon' = [measured |-> TRUE, speed |-> download_speed,
                     new |-> new_config]
          /\ upd' = [upd EXCEPT !["monitor"] = [pc |-> "write", new |-> new_config]]
    /\ UNCHANGED <<request_queue, cache, busy, config, last, drain, rt, comp, proc,
                   dns, diag, pu, cc>>

\* generateDiagnosticsReport has printed the configuration, the cache size
\* and the active connections, and calls performSpeedTest.
ReportMeasure ==
    /\ "report" \notin meas
    /\ meas' = meas \cup {"report"}
    /\ UNCHANGED <<netVars, pu, cc>>

\* performSpeedTest returns to generateDiagnosticsReport, which prints the
\* result and returns the report, or fails with the error of the speed test.
ReportMeasured(speed_test_ok) ==
    /\ "report" \in meas
    /\ meas' = meas \ {"report"}
    /\ diag' = [called |-> TRUE, op |-> "generateDiagnosticsReport",
                ops |-> ReportCalls,
                returned |-> IF speed_test_ok THEN "report" ELSE "error"]
    /\ UNCHANGED <<request_queue, cache, busy, config, last, drain, rt, comp, upd, mon,
                   proc, dns, pu, cc>>

NextMeasure ==
    \/ MonitorMeasure
    \/ \E s \in Speeds : MonitorMeasured(s)
    \/ UpdateWrite("monitor")
    \/ \E ok \in BOOLEAN : UpdateComponent("monitor", ok)
    \/ ReportMeasure
    \/ \E ok \in BOOLEAN : ReportMeasured(ok)

SpecMeasure == Init /\ [][NextMeasure]_vars

---------------------------------------------------------------------------
(* The updater (performUpdate and the functions it calls).  pu is the call *)
(* of performUpdate in progress: where it stands, the functions it has     *)
(* called in order, what each returned, and the downloaded file.           *)
(* downloadUpdate frees the file name it returns (defer free(filename)),   *)
(* and checkForUpdates frees the parse tree its strings point into, so the *)
(* path and the signature performUpdate works with are dangling: what      *)
(* verifyUpdate reads through them is any of the outcomes below.           *)

\* What the server sends as the update file.
Contents == {"release", "tampered"}

\* SHA-256 of the file, printed in hexadecimal.
Sha256Hex(content) == IF content = "release" THEN "5e1f" ELSE "c0de"

\* What verifyUpdate finds in expected_signature.
Signatures == {"5e1f", "c0de", "0000"}

StatusCodes == {200, 404, 500}

\* The calls of downloadUpdate that can fail with an error of their own.
DownloadIo == {"none", "makePath", "send", "createFile"}

\* What verifyUpdate finds under file_path: the downloaded file, no file,
\* or an unmapped page (the read of the path faults).
PathReads == {"file", "missing", "fault"}

\* downloadUpdate(download_url): the error it returns, or "ok".
DownloadUpdate(status_code, io) ==
    IF io \in {"makePath", "send"} THEN "IoError"
    ELSE IF status_code # 200 THEN "DownloadFailed"
    ELSE IF io = "createFile" THEN "IoError"
    ELSE "ok"

\* verifyUpdate(file_path, expected_signature): the error it returns, or "ok".
VerifyUpdate(path_read, content, expected_signature) ==
    IF path_read = "missing" THEN "FileNotFound"
    ELSE IF Sha256Hex(content) # expected_signature THEN "VerificationFailed"
    ELSE "ok"

\* try: an error leaves performUpdate, "ok" goes on to the next statement.
TryIgnoresError(result, next) == next

Try(result, next) == IF result = "ok" THEN next ELSE "returned"

\* initAutoUpdate: checkForUpdates fails, the loop sleeps and checks again.
CheckFailed ==
    /\ pu.pc = "idle"
    /\ pu.checks < MaxChecks
    /\ pu' = [pu EXCEPT !.checks = @ + 1]
    /\ UNCHANGED <<netVars, meas, cc>>

\* initAutoUpdate: checkForUpdates returns an update, the user accepts and
\* performUpdate(update_result) is called.
PerformUpdate(expected_signature) ==
    /\ pu.pc = "idle"
    /\ pu' = [pc |-> "download", checks |-> pu.checks, calls |-> <<>>,
              signature |-> expected_signature, status_code |-> 0,
              download |-> "none", verify |-> "none", file |-> "none",
              result |-> "none"]
    /\ UNCHANGED <<netVars, meas, cc>>

\* const update_file_path = try downloadUpdate(update_result.download_url);
\* defer fs.deleteFile(update_file_path) catch {};
PerformDownload(status_code, io, content) ==
    /\ pu.pc = "download"
    /\ LET r == DownloadUpdate(status_code, io) IN
       pu' = [pu EXCEPT !.pc = Try(r, "verify"),
                        !.calls = Append(@, "downloadUpdate"),
                        !.download = r,
                        !.status_code = IF io \in {"makePath", "send"} THEN 0 ELSE status_code,
                        !.file = IF r = "ok" THEN content ELSE "none",
                        !.result = IF Try(r, "verify") = "returned" THEN r ELSE @]
    /\ UNCHANGED <<netVars, meas, cc>>

\* try verifyUpdate(update_file_path, update_result.signature);
\* When it fails the deferred deleteFile runs, on the path as it reads then.
PerformVerify(path_read) ==
    /\ pu.pc = "verify"
    /\ IF path_read = "fault"
       THEN pu' = [pu EXCEPT !.pc = "crashed", !.calls = Append(@, "verifyUpdate")]
       ELSE LET r == VerifyUpdate(path_read, pu.file, pu.signature) IN
            pu' = [pu EXCEPT !.pc = Try(r, "install"),
                             !.calls = Append(@, "verifyUpdate"),
                             !.verify = r,
                             !.file = IF Try(r, "install") = "returned" /\ path_read = "file"
                                      THEN "none" ELSE @,
                             !.result = IF Try(r, "install") = "returned" THEN r ELSE @]
    /\ UNCHANGED <<netVars, meas, cc>>

\* try installUpdate(update_file_path); installUpdate sleeps and returns.
PerformInstall ==
    /\ pu.pc = "install"
    /\ pu' = [pu EXCEPT !.pc = Try("ok", "restart"),
                        !.calls = Append(@, "installUpdate")]
    /\ UNCHANGED <<netVars, meas, cc>>

\* try restartApplication(); it ends the process with std.process.exit(0).
PerformRestart ==
    /\ pu.pc = "restart"
    /\ pu' = [pu EXCEPT !.pc = "exited", !.calls = Append(@, "restartApplication")]
    /\ UNCHANGED <<netVars, meas, cc>>

NextUpdate ==
    \/ CheckFailed
    \/ \E sig \in Signatures : PerformUpdate(sig)
    \/ \E sc \in StatusCodes, io \in DownloadIo, c \in Contents : PerformDownload(sc, io, c)
    \/ \E pr \in PathReads : PerformVerify(pr)
    \/ PerformInstall
    \/ PerformRestart

SpecUpdate == Init /\ [][NextUpdate]_vars

---------------------------------------------------------------------------
(* updateConfig from its call to its return, with no other operation in    *)
(* between: the assignment of self.config, then the component calls in     *)
(* order up to the first that fails.                                       *)

\* The configurations the embedder hands to updateConfig.
NewConfigs ==
    { [InitialConfig EXCEPT !.max_connections_per_host = m,
                            !.dns_cache_size = d,
                            !.cache_max_size = c,
                            !.max_total_connections = n] :
        m \in {2, 4}, d \in {32, 64}, c \in {512, 1024}, n \in {1, 2} }

\* The component calls from pc on, failing (if any) being the component
\* whose call returns an error: the tunables the components end with and
\* what updateConfig returns.
RECURSIVE ComponentCalls(_, _, _, _)
ComponentCalls(cmp, new, pc, failing) ==
    IF pc = "idle" THEN [comp |-> cmp, returned |-> "ok"]
    ELSE IF pc = failing THEN [comp |-> cmp, returned |-> "error"]
    ELSE ComponentCalls([cmp EXCEPT ![pc] = new[pc]], new, StepAfter(pc), failing)

\* updateConfig(new_config), as one step.
UpdateConfig(new_config, failing) ==
    LET r == ComponentCalls(comp, ComponentsOf(new_config), "http", failing) IN
    /\ upd["manual"].pc = "idle"
    /\ config' = new_config
    /\ comp' = r.comp
    /\ upd' = [upd EXCEPT !["manual"] =
                  [pc |-> "idle", returned |-> r.returned, new |-> new_config]]
    /\ cache' \in IF r.returned = "ok"
                   THEN CacheUpdateConfig(cache, new_config.cache_max_size)
                   ELSE {cache}
    /\ busy' = IF r.returned = "ok"
               THEN SetMaxConnections(busy, new_config.max_total_connections)
               ELSE busy
    /\ UNCHANGED <<request_queue, last, drain, rt, mon, proc>>
    /\ UNCHANGED auxVars

NextReconfigure ==
    \E c \in NewConfigs, failing \in FallibleComponents \cup {"none"} : UpdateConfig(c, failing)

SpecReconfigure == Init /\ [][NextReconfigure]_vars

---------------------------------------------------------------------------
(* The backoff time of handleNetworkError in 64 bits.  The numbers exceed  *)
(* what the model checker's integers hold, so a number is a sequence of    *)
(* limbs, least significant first, each below LimbBase.                    *)

MaxRetryCount == 66   \* largest retry_count and max_retries tried

LimbBase == 1024

\* digits * k + carry, for a small k.
RECURSIVE MulSmall(_, _, _)
MulSmall(digits, k, carry) ==
    IF digits = <<>>
    THEN IF carry = 0 THEN <<>>
         ELSE <<carry % LimbBase>> \o MulSmall(<<>>, k, carry \div LimbBase)
    ELSE LET t == digits[1] * k + carry IN
         <<t % LimbBase>> \o MulSmall(Tail(digits), k, t \div LimbBase)

\* 2^n: LimbBase is 2^10, so the only limb that is not zero is limb
\* n \div 10 (counted from zero), and it holds 2^(n % 10).
PowWide(n) == [i \in 1..(n \div 10 + 1) |-> IF i = n \div 10 + 1 THEN Pow2(n % 10) ELSE 0]

\* The number is below 2^64: at most six full limbs and four bits of a seventh.
FitsU64(digits) == Len(digits) <= 7 /\ (Len(digits) = 7 => digits[7] < 16)

\* backoff_time = std.time.ns_per_ms * std.math.pow(u64, 2, retry_count):
\* the power and the product are computed in u64; where a result does not
\* fit, the operation that overflows is named.
BackoffTimeU64(retry_count) ==
    LET power == PowWide(retry_count)
        product == MulSmall(power, NsPerMs, 0)
    IN  IF ~FitsU64(power) THEN [overflow |-> "pow", digits |-> <<>>]
        ELSE IF ~FitsU64(product) THEN [overflow |-> "multiply", digits |-> <<>>]
        ELSE [overflow |-> "none", digits |-> product]

InitBackoff ==
    /\ request_queue = <<>>
    /\ cache = [u \in Urls |-> NoEntry]
    /\ busy = {}
    /\ config \in { [InitialConfig EXCEPT !.max_retries = m] : m \in 0..MaxRetryCount }
    /\ last = NoFetch
    /\ drain = NoDrain
    /\ rt = RtIdle
    /\ CtlInit(config)

\* handleNetworkError(err, retry_count) is called.
HandleBackoff(err, retry_count) ==
    /\ rt' = IF RetriesExhausted(retry_count, config.max_retries)
             THEN [status |-> "handled", retry_count |-> retry_count,
                   returned |-> err, backoff |-> [overflow |-> "none", digits |-> <<>>]]
             ELSE [status |-> "handled", retry_count |-> retry_count,
                   returned |-> "none", backoff |-> BackoffTimeU64(retry_count)]
    /\ UNCHANGED <<request_queue, cache, busy, config, last, drain>>
    /\ UNCHANGED ctlVars
    /\ UNCHANGED auxVars

NextBackoff == \E retry_count \in 0..MaxRetryCount : HandleBackoff("Timeout", retry_count)

SpecBackoff == InitBackoff /\ [][NextBackoff]_vars

---------------------------------------------------------------------------
(* CookieCompiler: compileCookies called by the threads Compilers and      *)
(* waitForCompilation by the threads Waiters.  The atomic flag, the mutex  *)
(* and the condition variable are shared; every access to them is a step.  *)

\* compilationInProgress.exchange(true): the call goes on when the flag was
\* clear and throws "already in progress" when it was set.
CompileEnterClearsOnReject(flag) == [admitted |-> ~flag, flag |-> ~flag]

CompileEnter(flag) == [admitted |-> ~flag, flag |-> TRUE]

\* What happens between the exchange and the reset of the flag: all chunks
\* are processed and merged; or an exception is caught with every worker
\* thread joined (mergeTempFiles fails); or it is caught while worker
\* threads are still joinable (a thread cannot be started).
WorkOutcomes == {"ok", "merge_failed", "spawn_failed"}

CookieStep(t, from) == cc.alive /\ cc.pc[t] = from

NotCalling(t) == cc.pc[t] \in {"idle", "returned", "thrown", "rejected"}

\* compileCookies() is called by t: the exchange.
CompileStart(t) ==
    /\ cc.alive
    /\ NotCalling(t)
    /\ cc.calls < MaxCompiles
    /\ LET e == CompileEnter(cc.flag) IN
       cc' = [cc EXCEPT !.flag = e.flag,
                        !.calls = @ + 1,
                        !.pc[t] = IF e.admitted THEN "compiling" ELSE "rejected"]
    /\ UNCHANGED <<netVars, meas, pu>>

\* The chunks are processed in worker threads, joined and merged.
CompileWork(t, outcome) ==
    /\ CookieStep(t, "compiling")
    /\ cc' = [cc EXCEPT !.pc[t] = outcome]
    /\ UNCHANGED <<netVars, meas, pu>>

\* compilationInProgress.store(false), at the end of the try block or in
\* the catch block.
CompileReset(t) ==
    /\ cc.alive
    /\ cc.pc[t] \in WorkOutcomes
    /\ cc' = [cc EXCEPT !.flag = FALSE, !.pc[t] = "notify_" \o cc.pc[t]]
    /\ UNCHANGED <<netVars, meas, pu>>

\* cv.notify_all(), then the return, or the throw out of the catch block;
\* the throw destroys the vector of threads, and a joinable thread in it
\* ends the process (std::terminate).
CompileNotify(t) ==
    /\ cc.alive
    /\ cc.pc[t] \in {"notify_ok", "notify_merge_failed", "notify_spawn_failed"}
    /\ cc' = [cc EXCEPT !.blocked = {},
                        !.alive = cc.pc[t] # "notify_spawn_failed",
                        !.pc = [u \in Compilers \cup Waiters |->
                                   IF u = t
                                   THEN (IF cc.pc[t] = "notify_ok" THEN "returned"
                                         ELSE "thrown")
                                   ELSE IF u \in cc.blocked THEN "woken"
                                   ELSE cc.pc[u]]]
    /\ UNCHANGED <<netVars, meas, pu>>

\* waitForCompilation() is called by w: std::unique_lock lock(cookiesMutex).
WaitLock(w) ==
    /\ cc.alive
    /\ cc.pc[w] \in {"idle", "returned"}
    /\ cc.mutex = "none"
    /\ cc' = [cc EXCEPT !.mutex = w, !.pc[w] = "locked"]
    /\ UNCHANGED <<netVars, meas, pu>>

\* A woken waiter takes the mutex again inside cv.wait.
WaitRelock(w) ==
    /\ CookieStep(w, "woken")
    /\ cc.mutex = "none"
    /\ cc' = [cc EXCEPT !.mutex = w, !.pc[w] = "locked"]
    /\ UNCHANGED <<netVars, meas, pu>>

\* cv.wait(lock, pred) evaluates the predicate !compilationInProgress.load():
\* when it holds the wait is over, the lock is released and the call returns.
WaitCheck(w) ==
    /\ CookieStep(w, "locked")
    /\ cc' = IF ~cc.flag
             THEN [cc EXCEPT !.mutex = "none", !.pc[w] = "returned"]
             ELSE [cc EXCEPT !.pc[w] = "checked"]
    /\ UNCHANGED <<netVars, meas, pu>>

\* The predicate was false: cv.wait(lock) releases the mutex and blocks, in
\* one step.
WaitBlock(w) ==
    /\ CookieStep(w, "checked")
    /\ cc' = [cc EXCEPT !.mutex = "none", !.blocked = @ \cup {w}, !.pc[w] = "blocked"]
    /\ UNCHANGED <<netVars, meas, pu>>

\* A blocked waiter may wake without a notification.
SpuriousWakeup(w) ==
    /\ CookieStep(w, "blocked")
    /\ cc' = [cc EXCEPT !.blocked = @ \ {w}, !.pc[w] = "woken"]
    /\ UNCHANGED <<netVars, meas, pu>>

CompilerNext(t) ==
    \/ CompileStart(t)
    \/ \E outcome \in WorkOutcomes : CompileWork(t, outcome)
    \/ CompileReset(t)
    \/ CompileNotify(t)

\* The steps of w inside a call of waitForCompilation.
WaiterNext(w) ==
    \/ WaitCheck(w)
    \/ WaitBlock(w)
    \/ WaitRelock(w)

NextCookie ==
    \/ \E t \in Compilers : CompilerNext(t)
    \/ \E w \in Waiters : WaitLock(w)
    \/ \E w \in Waiters : WaiterNext(w)
    \/ \E w \in Waiters : SpuriousWakeup(w)

SpecCookie == Init /\ [][NextCookie]_vars

\* Every thread that can take a step of its call eventually takes it; a
\* new call and a spurious wake-up need never happen.
CookieFairness ==
    /\ \A t \in Compilers :
          WF_vars((\E outcome \in WorkOutcomes : CompileWork(t, outcome))
                      \/ CompileReset(t) \/ CompileNotify(t))
    /\ \A w \in Waiters : WF_vars(WaiterNext(w))

SpecCookieLive == SpecCookie /\ CookieFairness

---------------------------------------------------------------------------
(* Every operation of NetworkManager together. *)

Next ==
    \/ \E u \in Urls, o \in FetchOptions, oc \in Outcomes : Fetch(u, o, oc)
    \/ \E u \in Urls, o \in QueuedOptions : QueueRequest(u, o)
    \/ ProcessQueue
    \/ \E u \in Urls : CacheExpire(u)
    \/ NextMonitor
    \/ NextPool

Spec == Init /\ [][Next]_vars

---------------------------------------------------------------------------
(* A caller that retries fetch: each attempt is one call of fetch; after a *)
(* failed call the caller consults handleNetworkError with the number of   *)
(* failures before this one, and handleNetworkError either returns the     *)
(* error or sleeps for the backoff time, after which fetch is called       *)
(* again.  The source has no such caller; it is the retry controller of    *)
(* the specification.  The caller can abandon the fetch at any time: the   *)
(* flag `cancelled` is the caller's, and neither fetch nor                 *)
(* handleNetworkError takes a parameter through which they could read it. *)

InitRetryFetch ==
    /\ request_queue = <<>>
    /\ cache = [u \in Urls |-> NoEntry]
    /\ busy = {}
    /\ config \in { [InitialConfig EXCEPT !.max_retries = m] : m \in 0..MaxRetries }
    /\ last = NoFetch
    /\ drain = NoDrain
    /\ CtlInit(config)
    /\ rt \in { [status |-> "running", url |-> u, options |-> o,
                 retry_count |-> 0, attempts |-> 0, ops |-> <<>>,
                 acquired |-> FALSE, result |-> Err("none"),
                 cancelled |-> FALSE, retries_after_cancel |-> 0] :
                   u \in Urls, o \in QueuedOptions }

\* One call of fetch by the retrying caller and, when it fails, the call of
\* handleNetworkError up to its return or to the start of its sleep.
RetryAttempt(oc) ==
    /\ rt.status = "running"
    /\ LET r == FetchCall(cache, busy, config, rt.url, rt.options, oc)
           failed == r.result.kind = "error"
           h == HandleNetworkError(config, oc.err, rt.retry_count)
       IN  /\ cache' = r.cache
           /\ busy' = r.busy
           /\ rt' = [rt EXCEPT
                  !.attempts = @ + 1,
                  !.ops = r.ops,
                  !.acquired = r.acquired,
                  !.result = r.result,
                  !.retry_count = IF failed /\ h.retry THEN @ + 1 ELSE @,
                  !.retries_after_cancel = IF rt.cancelled THEN @ + 1 ELSE @,
                  !.status = IF ~failed THEN "succeeded"
                             ELSE IF h.retry THEN "sleeping" ELSE "fatal"]
    /\ UNCHANGED <<request_queue, config, last, drain>>
    /\ UNCHANGED ctlVars
    /\ UNCHANGED auxVars

\* std.time.sleep(backoff_time) returns.
RetryWake ==
    /\ rt.status = "sleeping"
    /\ rt' = [rt EXCEPT !.status = "running"]
    /\ UNCHANGED <<request_queue, cache, busy, config, last, drain>>
    /\ UNCHANGED ctlVars
    /\ UNCHANGED auxVars

\* The caller abandons the fetch while it is being retried: during the
\* backoff sleep or between the sleep and the next attempt.
RetryCancel ==
    /\ rt.status \in {"running", "sleeping"}
    /\ rt.attempts >= 1
    /\ ~rt.cancelled
    /\ rt' = [rt EXCEPT !.cancelled = TRUE]
    /\ UNCHANGED <<request_queue, cache, busy, config, last, drain>>
    /\ UNCHANGED ctlVars
    /\ UNCHANGED auxVars

NextRetryFetch ==
    \/ \E oc \in Outcomes : RetryAttempt(oc)
    \/ RetryWake
    \/ RetryCancel

SpecRetryFetch == InitRetryFetch /\ [][NextRetryFetch]_vars

---------------------------------------------------------------------------
(* Properties. *)

Count(ops, x) == Cardinality({ i \in 1..Len(ops) : ops[i] = x })

NetworkOps == {"resolve", "acquire", "send"}

NoNetwork(ops) == \A i \in 1..Len(ops) : ops[i] \notin NetworkOps

IsPrefix(s, t) == Len(s) <= Len(t) /\ \A i \in 1..Len(s) : s[i] = t[i]

SeqIds(s) == { s[i] : i \in 1..Len(s) }

Fetched == last.url # "none"

\* C1 (as claimed): processQueue calls fetch on the queued entries in the
\* order they were enqueued, first queued first.
C1_DrainIsFifo ==
    drain.called => IsPrefix(drain.fetched, drain.before)

\* C2 (as claimed): processQueue calls fetch once for every entry that was
\* queued when it started, also when a fetch fails, and leaves the queue empty.
C2_DrainReachesEveryEntry ==
    drain.called =>
        /\ SeqIds(drain.fetched) = SeqIds(drain.before)
        /\ Len(drain.fetched) = Len(drain.before)
        /\ drain.left = <<>>

\* C3: in one call of processQueue no queued entry is fetched twice, only
\* entries that were queued are fetched, and an entry whose fetch failed is
\* no longer in the queue when processQueue returns.
C3_DrainAtMostOnce ==
    drain.called =>
        /\ \A i, j \in 1..Len(drain.fetched) :
              drain.fetched[i] = drain.fetched[j] => i = j
        /\ SeqIds(drain.fetched) \subseteq SeqIds(drain.before)
        /\ SeqIds(drain.fetched) \cap SeqIds(drain.left) = {}
        /\ drain.failed # 0 =>
              /\ drain.failed = drain.fetched[Len(drain.fetched)]
              /\ drain.failed \notin SeqIds(drain.left)

\* A drain of two or more entries in which a fetch failed and entries remain.
C3_Witness ==
    /\ drain.called
    /\ drain.failed # 0
    /\ Len(drain.before) >= 2
    /\ drain.left # <<>>

\* C4: a connection fetch acquired is released before fetch returns, on the
\* success path and on every failure after the acquire, so no connection is
\* busy between calls of fetch.
C4_ConnectionReleased ==
    /\ busy = {}
    /\ (Fetched /\ last.acquired) =>
          /\ Count(last.ops, "release") = 1
          /\ last.ops[Len(last.ops)] = "release"
    /\ (Fetched /\ ~last.acquired) => Count(last.ops, "release") = 0

\* A fetch that failed after it had acquired its connection.
C4_Witness ==
    /\ Fetched
    /\ last.acquired
    /\ last.result.kind = "error"
    /\ busy = {}

\* C5: called with use_cache while the cache holds a fresh entry of the
\* url, fetch returns the cached response and makes no resolve, acquire or send.
C5_CacheHitTouchesNoNetwork ==
    (Fetched /\ last.options.use_cache /\ last.before.state = "fresh") =>
        /\ last.result = Ok(last.before.response)
        /\ NoNetwork(last.ops)

\* A fetch with use_cache that found a fresh entry.
C5_Witness ==
    /\ Fetched
    /\ last.options.use_cache
    /\ last.before.state = "fresh"
    /\ last.before.response.status = 404

\* C6 (as claimed): every fetch with use_cache that finds no entry and
\* returns a response has made exactly one resolve, one acquire and one send
\* and has stored the response.
C6_MissAlwaysPopulates ==
    ( /\ Fetched
      /\ last.options.use_cache
      /\ last.before.state = "absent"
      /\ last.result.kind = "response" ) =>
        /\ Count(last.ops, "resolve") = 1
        /\ Count(last.ops, "acquire") = 1
        /\ Count(last.ops, "send") = 1
        /\ Count(last.ops, "cache_set") = 1

\* The first fetch of the scenario: use_cache and cache_response set, no entry
\* of the url cached, every stage succeeded and the response is cacheable.
C6_First(f) ==
    /\ f.url # "none"
    /\ f.options.use_cache
    /\ f.options.cache_response
    /\ f.before.state = "absent"
    /\ f.result.kind = "response"
    /\ f.result.response.is_cacheable

C6_Step ==
    /\ (C6_First(last') /\ last' # last) =>
          /\ last'.ops = <<"cache_get", "resolve", "acquire", "prepare", "send",
                           "cache_set", "release">>
          /\ cache'[last'.url] = FreshEntry(last'.result.response)
    /\ ( /\ C6_First(last)
         /\ cache[last.url] = FreshEntry(last.result.response)
         /\ last' # last
         /\ last'.url = last.url
         /\ last'.options = last.options ) =>
          /\ NoNetwork(last'.ops)
          /\ last'.result = last.result

\* C6 (amended): a fetch with use_cache and cache_response that finds no entry
\* of the url, whose stages all succeed and whose response is cacheable,
\* makes exactly one resolve, one acquire and one send and stores the
\* response; an identical fetch made while that entry is fresh returns the
\* same response with no network operation.
C6_MissThenHit == [][C6_Step]_vars

\* The first fetch has stored its response and the entry is still fresh.
C6_Witness ==
    /\ C6_First(last)
    /\ cache[last.url] = FreshEntry(last.result.response)
    /\ Count(last.ops, "send") = 1

\* C7 (as claimed): on a miss a transient failure of a stage is retried, and
\* fetch returns the error only after config.max_retries further attempts.
C7_TransientFailureIsRetried ==
    (Fetched /\ last.result.kind = "error" /\ last.result.err \in TransientErrors) =>
        Count(last.ops, "resolve") > config.max_retries

RtDone == rt.status \in {"succeeded", "fatal"}

RECURSIVE SumSeq(_)
SumSeq(s) == IF s = <<>> THEN 0 ELSE s[1] + SumSeq(Tail(s))

RECURSIVE SumBackoff(_)
SumBackoff(n) == IF n = 0 THEN 0 ELSE SumBackoff(n - 1) + NsPerMs * (2 ^ (n - 1))

\* C9: the sleep after the failure numbered k is one millisecond times 2^k,
\* and with the first failure numbered 0 the sleeps before a success that
\* follows N failures add up to the sum of 2^i milliseconds, i in [0, N).
C9_BackoffDoubles ==
    /\ rt.status # "idle" =>
          \A i \in 1..Len(rt.slept) :
              rt.slept[i] = NsPerMs * (2 ^ (rt.first + i - 1))
    /\ (rt.status = "succeeded" /\ rt.first = 0) =>
          /\ Len(rt.slept) = rt.fails
          /\ SumSeq(rt.slept) = SumBackoff(rt.fails)

\* A success after two or more failures, the first numbered 0.
C9_Witness ==
    /\ rt.status = "succeeded"
    /\ rt.first = 0
    /\ rt.fails >= 2
    /\ Len(rt.slept) >= 2

\* C10 (as claimed): an error that is not transient is returned after one
\* attempt, with no backoff sleep and no second attempt.
C10_FatalErrorsNotRetried ==
    (RtDone /\ rt.fails >= 1 /\ rt.kind \in FatalErrors) =>
        /\ rt.status = "fatal"
        /\ rt.attempts = 1
        /\ rt.slept = <<>>

\* C11 (as claimed): the configuration the monitor hands to updateConfig has
\* (max_connections_per_host, request_timeout) = (2, 30000) for a download
\* speed below 1 Mbps, (4, 15000) from 1 Mbps to 10 Mbps inclusive, and
\* (6, 10000) above 10 Mbps.
C11_BandsAsClaimed ==
    mon.measured =>
        LET pair == <<mon.new.max_connections_per_host, mon.new.request_timeout>> IN
        /\ mon.speed < 1000000 => pair = <<2, 30000>>
        /\ (mon.speed >= 1000000 /\ mon.speed <= 10000000) => pair = <<4, 15000>>
        /\ mon.speed > 10000000 => pair = <<6, 10000>>

\* C12 (as claimed): at every point the tunables every component holds are
\* those of NetworkManager.config: a reader never meets values of one
\* configuration in one place and of another configuration elsewhere.
C12_ConfigNeverTorn == comp = ComponentsOf(config)

\* C13 (as claimed): at every point of every interleaving of concurrent
\* fetches and ceiling changes, the busy connections are no more than
\* config.max_total_connections, and those busy for one destination no more
\* than config.max_connections_per_host.
C13_CeilingsHold ==
    /\ Cardinality(busy) <= config.max_total_connections
    /\ \A u \in Urls : Cardinality(BusyFor(u)) <= config.max_connections_per_host

\* C14 (as claimed): two fetches that are in flight at the same time never
\* hold the same connection, and the connection a fetch holds is busy.
C14_SingleOwner ==
    \A p, q \in Procs :
        (Holding(p) /\ Holding(q) /\ p # q) =>
            /\ proc[p].conn # proc[q].conn
            /\ proc[p].conn \in busy

\* C15 (as claimed): an acquire made while the busy connections have reached
\* the global ceiling returns no connection: the caller waits or fails with
\* PoolExhausted.
C15_Step ==
    \A p \in Procs :
        (proc[p].pc = "acquiring" /\ Cardinality(busy) >= config.max_total_connections)
            => proc'[p].pc # "holding"

C15_NoConnectionAtCeiling == [][C15_Step]_vars

\* C16 (as claimed): in a pool set up with max_total_connections = 1 and
\* never reconfigured, of two concurrent fetches to different hosts at most
\* one holds a connection at a time.
C16_SecondWaits ==
    ( /\ upd["manual"] = NoUpdate
      /\ config.max_total_connections = 1
      /\ \A p \in Procs : proc[p].pc # "idle"
      /\ proc["f1"].url # proc["f2"].url ) =>
        ~(Holding("f1") /\ Holding("f2"))

C17_Step ==
    \A u \in Updaters :
        (upd[u].pc = "pool" /\ upd'[u].pc = "idle") =>
            /\ busy' = busy
            /\ proc' = proc

\* C17: the step of updateConfig that calls setMaxConnections, whatever the
\* new ceiling is, leaves every busy connection busy and every in-flight
\* fetch with the connection it holds.
C17_BusyConnectionsSurvive == [][C17_Step]_vars

\* The ceiling was lowered from 2 to 1 by an updateConfig that returned, and
\* two fetches are in flight on two connections.
C17_Witness ==
    /\ upd["manual"].pc = "idle"
    /\ upd["manual"] # NoUpdate
    /\ upd["manual"].returned = "ok"
    /\ upd["manual"].ceiling_was = 2
    /\ comp.pool.max_total_connections = 1
    /\ Holding("f1") /\ Holding("f2")
    /\ Cardinality(busy) = 2

C19_CancelStopsRetries ==
    rt.cancelled =>
        /\ rt.retries_after_cancel = 0
        /\ rt.status \in {"succeeded", "fatal"} => rt.result = Err("Cancelled")

C20_Step ==
    \A u \in Urls :
        (cache'[u] # cache[u] /\ cache'[u].state # "stale") =>
            /\ last'.url = u
            /\ last'.options.cache_response
            /\ last'.result.kind = "response"
            /\ last'.result.response.is_cacheable
            /\ cache'[u] = FreshEntry(last'.result.response)

\* C20: apart from the expiry of an entry with time, the cache changes only
\* by a fetch called with cache_response that returns a cacheable response,
\* and then only the entry of its url changes, to that response; a fetch
\* without cache_response, with a response that is not cacheable or with a
\* failed stage leaves every entry as it was.
C20_StoresOnlyCacheable == [][C20_Step]_vars

\* A fetch with cache_response that went to the network over a stale entry,
\* received a response that is not cacheable and left the entry as it was.
C20_Witness ==
    /\ Fetched
    /\ last.options.cache_response
    /\ last.result.kind = "response"
    /\ ~last.result.response.is_cacheable
    /\ last.before.state = "stale"
    /\ cache[last.url] = last.before

Stored == Fetched /\ Count(last.ops, "cache_set") = 1

\* The entries a step removed from the cache.
Evicted(u) == { k \in CacheUrls \ {u} : cache[k] # NoEntry /\ cache'[k] = NoEntry }

\* The step is a call of fetch that reached cache_manager.set.
StoreStep == last' # last /\ Count(last'.ops, "cache_set") = 1

\* C21 (as claimed): after every set of a fresh, cacheable response a get of
\* the same key returns that response.
C21_StepClaimed ==
    StoreStep =>
        CacheGet(cache', last'.url) = [hit |-> TRUE, response |-> last'.result.response]

C21_GetAfterEverySet == [][C21_StepClaimed]_vars

C21_Step ==
    /\ (StoreStep /\ ~Oversize(last'.result.response, comp.cache.max_size)) =>
          CacheGet(cache', last'.url) =
              [hit |-> TRUE, response |-> last'.result.response]
    /\ \A u \in CacheUrls :
          cache[u].state \in {"absent", "stale"} => ~CacheGet(cache, u).hit
    /\ (Fetched /\ last.options.use_cache /\ last.before.state # "fresh") =>
          Count(last.ops, "send") = 1

\* C21 (amended): a get right after a set of a fresh, cacheable response that
\* is no larger than the maximum cache size returns that response; a get of
\* a key whose entry has expired or that has no entry is a miss, and the
\* fetch goes to the network.
C21_GetAfterAcceptedSet == [][C21_Step]_vars

\* A fetch stored a response of size 2 or more, and it is the fresh entry of
\* its url.
C21_Witness ==
    /\ Stored
    /\ ResponseSize(last.result.response) >= 2
    /\ cache[last.url] = FreshEntry(last.result.response)
    /\ CacheGet(cache, last.url).hit

\* C22: the total size of the entries of the cache is at most the maximum
\* the cache was last handed, after every store, expiry and reconfiguration.
C22_SizeWithinMaximum == CacheSize(cache) <= comp.cache.max_size

\* A store into a cache that the new entry would have taken above its
\* maximum; the maximum has not been changed since.
C22_Witness ==
    /\ Stored
    /\ upd["manual"] = NoUpdate
    /\ last.size_before - EntrySize(last.before) + ResponseSize(last.result.response)
          > comp.cache.max_size
    /\ cache[last.url] = FreshEntry(last.result.response)

C29_Step ==
    StoreStep =>
        LET u == last'.url
            r == last'.result.response
            max_size == comp.cache.max_size
        IN  IF ResponseSize(r) > max_size
            THEN cache' = cache
            ELSE /\ cache'[u] = FreshEntry(r)
                 /\ CacheSize(cache') <= max_size
                 /\ \A k \in CacheUrls \ {u} : cache'[k] \in {cache[k], NoEntry}
                 /\ Evicted(u) # {} =>
                       \E k \in Evicted(u) :
                           CacheSize(cache') + EntrySize(cache[k]) > max_size

\* C29: a set of a response larger than the maximum size leaves the cache as
\* it was; any other set makes the response the entry of its key, evicting
\* other entries only as long as the new entry does not fit.
C29_SetEnforcesBound == [][C29_Step]_vars

\* A store of a response larger than the maximum was made and the entry of
\* its url is what it was before.
C29_Witness ==
    /\ Stored
    /\ upd["manual"] = NoUpdate
    /\ ResponseSize(last.result.response) > comp.cache.max_size
    /\ last.before # NoEntry
    /\ cache[last.url] = last.before

\* C30 (as claimed): when updateConfig has returned, the total size of the
\* cache is at most config.cache_max_size.
C30_EvictedOnReturn ==
    (upd["manual"].pc = "idle" /\ upd["manual"] # NoUpdate) =>
        CacheSize(cache) <= config.cache_max_size

\* The step is a call of resolve by p (for the hostname proc'[p].host).
ResolveStep(p) == NotResolving(p) /\ proc'[p] # proc[p]

Waiting(p, h) == proc[p].pc = "waiting" /\ proc[p].host = h

C23_Step ==
    \A p \in Procs :
        ResolveStep(p) =>
            LET h == proc'[p].host
                entry == dns.pos[h]
            IN  /\ (entry.state = "cached" /\ entry.age < PositiveTtl) =>
                      /\ proc'[p].pc = "resolved"
                      /\ proc'[p].result = [ok |-> TRUE, addrs |-> entry.addrs]
                      /\ ~proc'[p].queried
                      /\ dns' = dns
                /\ proc'[p].source = "positive" =>
                      (entry.state = "cached" /\ entry.age < PositiveTtl)

\* C23: a call of resolve for a hostname whose positive entry is younger than
\* the lifetime returns the cached addresses, issues no query and leaves the
\* resolver as it is; no call is answered from a positive entry that has
\* reached the lifetime.
C23_FreshEntryAnswers == [][C23_Step]_vars

\* A call was answered from a positive entry that had aged but not expired.
C23_Witness ==
    \E p \in Procs :
        /\ proc[p].pc = "resolved"
        /\ proc[p].source = "positive"
        /\ ~proc[p].queried
        /\ dns.pos[proc[p].host].state = "cached"
        /\ dns.pos[proc[p].host].age = 1
        /\ proc[p].result = [ok |-> TRUE, addrs |-> dns.pos[proc[p].host].addrs]

C24_Step ==
    /\ \A h \in Hosts :
          /\ Cardinality(dns.inflight[h]) <= 1
          /\ (\E p \in Procs : Waiting(p, h)) =>
                Cardinality({ p \in Procs : Waiting(p, h) /\ proc[p].queried }) = 1
    /\ \A p \in Procs :
          proc[p].pc = "waiting" => proc[p].on \in dns.inflight[proc[p].host]
    /\ \A p, q \in Procs :
          ( /\ proc[p].pc = "waiting"
            /\ Waiting(q, proc[p].host)
            /\ proc'[p].pc = "resolved" ) =>
              /\ proc'[q].pc = "resolved"
              /\ proc'[q].result = proc'[p].result

\* C24: at most one query per hostname is in flight; of the calls waiting
\* for a hostname exactly one has issued a query, the others wait for that
\* query; and when it is answered they all return with the same result.
C24_QueriesCoalesce == [][C24_Step]_vars

\* Two calls for the same hostname returned with the answer of one query:
\* f1 issued it and f2 waited for it.
C24_Witness ==
    /\ proc["f1"].pc = "resolved" /\ proc["f2"].pc = "resolved"
    /\ proc["f1"].host = proc["f2"].host
    /\ proc["f1"].source = "query" /\ proc["f2"].source = "query"
    /\ proc["f1"].queried /\ ~proc["f2"].queried
    /\ proc["f2"].on = "f1"
    /\ proc["f1"].result = proc["f2"].result

C25_Step ==
    /\ NegativeTtl < PositiveTtl
    /\ \A p \in Procs :
          ResolveStep(p) =>
              LET h == proc'[p].host
                  positive == dns.pos[h].state = "cached" /\ dns.pos[h].age < PositiveTtl
                  entry == dns.neg[h]
              IN  /\ (~positive /\ entry.state = "cached" /\ entry.age < NegativeTtl) =>
                        /\ proc'[p].pc = "resolved"
                        /\ proc'[p].result = [ok |-> FALSE, err |-> entry.err]
                        /\ ~proc'[p].queried
                        /\ dns' = dns
                  /\ (~positive /\ entry.state = "cached" /\ entry.age >= NegativeTtl) =>
                        /\ proc'[p].source = "query"
                        /\ proc'[p].queried \/ dns.inflight[h] # {}

\* C25: a call of resolve for a hostname whose failure was cached less than
\* the negative lifetime ago returns that failure and issues no query; once
\* the negative lifetime has passed the call is answered by a query; and the
\* negative lifetime is shorter than the positive one.
C25_NegativeCacheExpiresSooner == [][C25_Step]_vars

\* A call issued a query although the failure of its hostname is still
\* stored, the negative lifetime having passed, while a positive entry of the
\* same age is still usable.
C25_Witness ==
    \E p \in Procs, h \in Hosts :
        /\ proc[p].pc = "waiting"
        /\ proc[p].queried
        /\ dns.neg[proc[p].host].state = "cached"
        /\ dns.neg[proc[p].host].age = NegativeTtl
        /\ dns.pos[h].state = "cached"
        /\ dns.pos[h].age = NegativeTtl
        /\ dns.pos[h].age < PositiveTtl

\* A step that is a call of fetch records its url and options in last'.
C28_Step ==
    \A oc \in Answered :
        ( /\ last'.url # "none"
          /\ ~UseCacheHit(cache, last'.url, last'.options)
          /\ Fetch(last'.url, last'.options, oc) ) =>
            /\ last'.result = Ok(oc.resp)
            /\ Count(last'.ops, "send") = 1

\* C28: a call of fetch whose request was sent and answered returns the
\* response the server sent as a response, also when its status is an error
\* status; fetch makes no failure of it.
C28_ErrorStatusIsAResponse == [][C28_Step]_vars

\* fetch sent a request, was answered with status 404 and returned it.
C28_Witness ==
    /\ Fetched
    /\ Count(last.ops, "send") = 1
    /\ last.result.kind = "response"
    /\ last.result.response.status = 404

ClearStep == diag' # diag /\ diag'.op = "clearCaches"

C26_Step ==
    ClearStep =>
        /\ \A h \in Hosts : ~PositiveFresh(dns', h) /\ ~NegativeFresh(dns', h)
        /\ \A u \in Urls : ~CacheGet(cache', u).hit
        /\ \A u \in Urls, oc \in Answered :
              LET r == FetchCall(cache', busy', config', u, StoreOptions, oc)
              IN  /\ Count(r.ops, "cache_get") = 1
                  /\ Count(r.ops, "resolve") = 1

\* C26: when clearCaches returns, no hostname has a usable positive or
\* negative entry, so that a call of resolve is answered by a query, and no
\* url has a usable response, so that a fetch with use_cache looks the url
\* up, misses and goes on to the network.
C26_ClearCachesEmptiesAll == [][C26_Step]_vars

\* clearCaches was called when a hostname had a positive entry, another a
\* negative entry, and a url had a cached response; now none of the three
\* is there.
C26_Witness ==
    /\ diag.called
    /\ diag.op = "clearCaches"
    /\ diag.positive # {}
    /\ diag.negative # {}
    /\ diag.responses # {}
    /\ \A h \in Hosts : dns.pos[h] = NoName /\ dns.neg[h] = NoName
    /\ \A u \in Urls : cache[u] = NoEntry

\* C27 (as claimed): generateDiagnosticsReport reports the speed-test
\* results without making a new measurement.
C27_ReportsWithoutMeasuring ==
    (diag.called /\ diag.op = "generateDiagnosticsReport") =>
        Count(diag.ops, "speed_test") = 0

\* C31 (as claimed): while one measurement is in progress no second
\* measurement starts.
C31_OneMeasurementAtATime == Cardinality(meas) <= 1

Called(f) == pu.pc # "idle" /\ \E i \in 1..Len(pu.calls) : pu.calls[i] = f

\* C32: performUpdate calls downloadUpdate, verifyUpdate, installUpdate in
\* this order; installUpdate is called only after both others returned
\* without error; and when downloadUpdate or verifyUpdate fails, performUpdate
\* returns that very error, having called nothing after the failing function.
C32_InstallOnlyAfterVerify ==
    /\ pu.pc # "idle" =>
          \E n \in 0..4 :
              pu.calls = SubSeq(<<"downloadUpdate", "verifyUpdate", "installUpdate",
                                  "restartApplication">>, 1, n)
    /\ Called("installUpdate") => pu.download = "ok" /\ pu.verify = "ok"
    /\ (pu.pc # "idle" /\ pu.download \notin {"none", "ok"}) =>
          /\ pu.pc = "returned"
          /\ pu.result = pu.download
          /\ pu.calls = <<"downloadUpdate">>
    /\ (pu.pc # "idle" /\ pu.verify \notin {"none", "ok"}) =>
          /\ pu.pc = "returned"
          /\ pu.result = pu.verify
          /\ pu.calls = <<"downloadUpdate", "verifyUpdate">>

\* performUpdate returned VerificationFailed for a downloaded file whose
\* hash is not the expected signature, without calling installUpdate.
C32_Witness ==
    /\ pu.pc = "returned"
    /\ pu.download = "ok"
    /\ pu.status_code = 200
    /\ pu.verify = "VerificationFailed"
    /\ pu.result = "VerificationFailed"
    /\ ~Called("installUpdate")

C33_Step ==
    ( /\ upd'["manual"] # upd["manual"]
      /\ upd'["manual"].returned = "error" ) =>
        /\ config' = config
        /\ comp' = comp

\* C33 (as claimed): when updateConfig returns an error, NetworkManager.config
\* and the tunables of every component are what they were when it was called.
C33_AllOrNothing == [][C33_Step]_vars

\* The step is the return of a successful call of updateConfig by u.
ReturnsOk(u) == upd[u].pc = "pool" /\ upd'[u].pc = "idle"

C34_Step ==
    \A u \in Updaters : ReturnsOk(u) => comp' = ComponentsOf(config')

\* C34 (as claimed): when a call of updateConfig returns successfully, the
\* tunables every component holds are those of NetworkManager.config.
C34_ComponentsFollowConfig == [][C34_Step]_vars

\* The step is the monitor's assignment self.config = new_config.
MonitorWrites == upd["monitor"].pc = "write" /\ upd'["monitor"].pc = "http"

C35_Step ==
    MonitorWrites =>
        \A f \in DOMAIN config \ {"max_connections_per_host", "request_timeout"} :
            config'[f] = config[f]

\* C35 (as claimed): the monitor's write of the configuration leaves every
\* field other than max_connections_per_host and request_timeout at the
\* value NetworkManager.config held just before, which is the value the
\* latest updateConfig wrote.
C35_MonitorKeepsOtherFields == [][C35_Step]_vars

\* C36 (as claimed): for every retry_count below max_retries the backoff
\* time handleNetworkError computes fits in 64 bits: neither the power nor
\* the product overflows.
C36_BackoffFitsU64 ==
    (rt.status = "handled" /\ rt.retry_count < config.max_retries) =>
        rt.backoff.overflow = "none"

\* The outcomes in which the resolution of the host fails.
ResolveFailures == { oc \in Outcomes : oc.fail = "resolve" }

C37_Step ==
    \A oc \in ResolveFailures :
        ( /\ last'.url # "none"
          /\ ~UseCacheHit(cache, last'.url, last'.options)
          /\ Fetch(last'.url, last'.options, oc) ) =>
            /\ last'.result = Err(oc.err)
            /\ Count(last'.ops, "resolve") = 1
            /\ Count(last'.ops, "acquire") = 0
            /\ Count(last'.ops, "send") = 0
            /\ ~last'.acquired
            /\ cache' = cache
            /\ busy' = busy
            /\ request_queue' = request_queue

\* C37: a call of fetch whose host resolution fails returns the error of the
\* resolution, has called neither acquire nor sendRequest, and leaves the
\* response cache, the pool and the request queue as they were.
C37_ResolveFailureTouchesNothing == [][C37_Step]_vars

\* fetch returned the resolution error after a lookup that missed a url
\* whose cached response had expired; the stale entry is still there.
C37_Witness ==
    /\ Fetched
    /\ last.result = Err("DnsTemporaryFailure")
    /\ last.ops = <<"cache_get", "resolve">>
    /\ last.before.state = "stale"
    /\ cache[last.url] = last.before
    /\ busy = {}

NotifyPcs == {"notify_ok", "notify_merge_failed", "notify_spawn_failed"}

\* t is inside compileCookies: past the exchange, before the return or throw.
InCompile(t) == cc.pc[t] \in {"compiling"} \cup WorkOutcomes \cup NotifyPcs

\* C38 (as claimed): while one call of compileCookies is between its start
\* and its return or throw, no other call is.
C38_OneCallAtATime == Cardinality({ t \in Compilers : InCompile(t) }) <= 1

\* The calls that have taken the flag and not yet reset it.
FlagHolders(c) == { t \in Compilers : c.pc[t] \in {"compiling"} \cup WorkOutcomes }

FlagOwned(c) == Cardinality(FlagHolders(c)) = (IF c.flag THEN 1 ELSE 0)

C38_Step ==
    /\ FlagOwned(cc) /\ FlagOwned(cc')
    /\ (cc'.calls # cc.calls /\ cc.flag) =>
          /\ cc'.flag
          /\ FlagHolders(cc') = FlagHolders(cc)
          /\ \E t \in Compilers :
                /\ cc'.pc[t] = "rejected"
                /\ \A u \in (Compilers \cup Waiters) \ {t} : cc'.pc[u] = cc.pc[u]
    /\ (cc'.calls # cc.calls /\ ~cc.flag) =>
          \E t \in Compilers : NotCalling(t) /\ FlagHolders(cc') = {t}
    /\ \A t \in Compilers :
          (cc'.pc[t] \in {"returned", "thrown"} /\ cc.pc[t] # cc'.pc[t]) =>
              t \notin FlagHolders(cc)

\* C38 (amended): the flag is set exactly while one call is between its
\* exchange and its reset of the flag; a call made meanwhile throws
\* "already in progress", processes nothing and leaves the flag set; a call
\* made while the flag is clear is admitted; and a call has reset the flag
\* before it returns or throws.
C38_ExclusiveWhileFlagHeld == [][C38_Step]_vars

\* A call has returned, a later call is compiling, and a call made
\* meanwhile was rejected.
C38_Witness ==
    /\ cc.calls = 3
    /\ cc.pc["t1"] = "compiling"
    /\ cc.pc["t2"] = "rejected"
    /\ cc.flag

InWait(w) == cc.pc[w] \in {"locked", "checked", "blocked", "woken"}

\* C39 (as claimed): a thread inside waitForCompilation returns once no
\* compilation is running any more.
C39_WaiterReturns ==
    \A w \in Waiters : InWait(w) ~> (cc.pc[w] = "returned" \/ ~cc.alive)

=============================================================================
